---- MODULE Spec2Model ----
(***************************************************************************)
(* A model of the event emitter: a sharded topic registry (buckets, each   *)
(* guarded by one mutex), the per-subscriber metadata store that holds the *)
(* reverse index, and the public operations as interleaved steps of        *)
(* concurrent callers.                                                     *)
(***************************************************************************)
EXTENDS Integers, Sequences, FiniteSets, TLC

\* ------------------------------------------------------------------------
\* Bounds of the model.
\* The number of operations started in a run of concurrent callers, and in a
\* run of non-overlapping calls.
MaxOps == 2
MaxSeqOps == 4
MaxObsOps == 2
MaxReOps == 3
MaxStoreOps == 3
\* The width in bits of the signed integers of the configuration: the int64 of
\* the source, scaled down.
IntBits == 8

Threads == {1, 2}
Subs == {1, 2}
Topics == {"", "a"}
Callbacks == {"f", "g"}
Msgs == {"m1"}
\* The values of Config.BucketNum handed to New.
ConfBucketNums == {1, 2}
\* The Subscribe calls already made and returned when a run starts: none, or
\* those of TestEventEmitter_Publish/ok (one subscriber on two topics, a second
\* subscriber on one of them).
Setups ==
    {<<>>,
     <<[suber |-> 1, topic |-> "a", cb |-> "f"],
       [suber |-> 1, topic |-> "", cb |-> "f"],
       [suber |-> 2, topic |-> "a", cb |-> "g"]>>}
Errs == {"nil", "err"}
\* A key a caller keeps in the metadata store for its own purposes.
UserKey == "user"
\* The keys and values of TestSmap_Range.
StoreKeys == {"1", "2"}
StoreValues == {"v1", "v2"}

\* ------------------------------------------------------------------------
\* Constants and pure functions of the source.
subTopic == "sub-topic-"

RECURSIVE TwoTo(_)
TwoTo(k) == IF k = 0 THEN 1 ELSE 2 * TwoTo(k - 1)

MinInt == 0 - TwoTo(IntBits - 1)
MaxInt == TwoTo(IntBits - 1) - 1
MaxUint == TwoTo(IntBits) - 1

\* The value of the signed integer variable after an arithmetic result v.
Wrap(v) == ((v - MinInt) % TwoTo(IntBits)) + MinInt

RECURSIVE toBinaryNumberFrom(_, _)
toBinaryNumberFrom(x, n) == IF x < n THEN toBinaryNumberFrom(Wrap(x * 2), n) ELSE x

toBinaryNumber(n) == toBinaryNumberFrom(1, n)

ConfigInit(bucketNum) ==
    toBinaryNumber(IF bucketNum <= 0 THEN 16 ELSE bucketNum)

RECURSIVE BitAnd(_, _)
BitAnd(x, y) ==
    IF x = 0 \/ y = 0 THEN 0
    ELSE (IF x % 2 = 1 /\ y % 2 = 1 THEN 1 ELSE 0) + 2 * BitAnd(x \div 2, y \div 2)

HasPrefix(s, prefix) ==
    Len(s) >= Len(prefix) /\ SubSeq(s, 1, Len(prefix)) = prefix

\* StringSubscriber: the id field of subscriber s.
GetSubscriberID(s) == "id" \o ToString(s)
SubIds == {GetSubscriberID(s) : s \in Subs}

\* smap: Store, Delete and Load on the data map.
SmapStore(data, key, value) ==
    [k \in (DOMAIN data) \cup {key} |-> IF k = key THEN value ELSE data[k]]

\* A Delete that leaves the entry in place.
SmapDeleteNothing(data, key) == data

SmapDelete(data, key) ==
    [k \in (DOMAIN data) \ {key} |-> data[k]]

SmapLoad(data, key) ==
    IF key \in DOMAIN data THEN <<data[key], TRUE>> ELSE <<"nil", FALSE>>

\* The set of all orders in which a range over a map with keys ks may run.
Orders(ks) ==
    {q \in [1 .. Cardinality(ks) -> ks] : \A i, j \in DOMAIN q : i # j => q[i] # q[j]}

\* A Range whose visit function stops after the first entry it collects.
RECURSIVE CollectTopicsFirst(_, _)
CollectTopicsFirst(data, q) ==
    IF q = <<>> THEN <<>>
    ELSE IF HasPrefix(Head(q), subTopic) THEN <<data[Head(q)]>>
         ELSE CollectTopicsFirst(data, Tail(q))

\* The values a Range with the prefix filter of UnSubscribeAll and
\* GetTopicsBySubscriber appends, for the iteration order q.
RECURSIVE CollectTopics(_, _)
CollectTopics(data, q) ==
    IF q = <<>> THEN <<>>
    ELSE (IF HasPrefix(Head(q), subTopic) THEN <<data[Head(q)]>> ELSE <<>>)
         \o CollectTopics(data, Tail(q))

SeqToSet(q) == {q[i] : i \in DOMAIN q}

\* A Range that goes on whatever the visit function answers.
RECURSIVE RangeVisitAll(_, _)
RangeVisitAll(q, f) ==
    IF q = <<>> THEN <<>> ELSE <<Head(q)>> \o RangeVisitAll(Tail(q), f)

\* smap.Range: the keys the visit function is called on, in this order, when
\* the map is iterated in the order q and f[k] is what the visit function
\* answers for the key k.
RECURSIVE RangeVisit(_, _)
RangeVisit(q, f) ==
    IF q = <<>> THEN <<>>
    ELSE <<Head(q)>> \o (IF f[Head(q)] THEN RangeVisit(Tail(q), f) ELSE <<>>)

\* ------------------------------------------------------------------------
\* State.
VARIABLES
    bucketNum,  \* conf.BucketNum after Config.init
    hash,       \* maphash.String(seed, topic), fixed by the seed New draws
    lock,       \* per bucket: the thread holding the Mutex, 0 when unlocked
    bTopics,    \* per bucket: Topics, topic -> subers (subId -> topicElement)
    md,         \* per subscriber: the data map of its metadata store
    th,         \* per thread: position in its operation, its locals, its output
    asked,      \* per subscriber and topic: the callback of the latest Subscribe
                \* call not followed by a call that unsubscribes it, else "none"
    last,       \* per subscriber and topic: the callback of the Subscribe that
                \* returned last, "none" if an unsubscribe of it returned after
    ever,       \* the topics of the Subscribe calls that have returned
    stack,      \* per thread: the publishes whose callback the thread runs in
    confN,      \* the BucketNum the caller of New configured
    confPc,     \* Config.init: where the normalisation of BucketNum stands
    confX,      \* toBinaryNumber: the local x
    nops        \* number of operations started so far

vars == <<bucketNum, hash, lock, bTopics, md, th, asked, asked, last, ever,
          stack, confN, confPc, confX, nops>>

Buckets == 0 .. (bucketNum - 1)

getBucket(topic) == BitAnd(hash[topic], bucketNum - 1)

\* Reads of the registry used by the operations.
HasTopic(topic) == topic \in DOMAIN bTopics[getBucket(topic)]
SubersOf(topic) == bTopics[getBucket(topic)][topic]
countTopicSubscriber(b, topic) ==
    IF topic \in DOMAIN bTopics[b] THEN Cardinality(DOMAIN bTopics[b][topic]) ELSE 0
Registered(s, topic) ==
    HasTopic(topic) /\ GetSubscriberID(s) \in DOMAIN SubersOf(topic)
\* The topics the reverse index of a metadata store names.
TopicsOfStore(data) ==
    {data[k] : k \in {k \in DOMAIN data : HasPrefix(k, subTopic)}}

NoSnap == [ok |-> FALSE, subers |-> <<>>]
NoPre == [bTopics |-> <<>>, md |-> <<>>]
Idle ==
    [pc |-> "idle", op |-> "none", suber |-> 0, topic |-> "", cb |-> "none",
     msg |-> "none", todo |-> <<>>, i |-> 0, visited |-> {}, snap |-> NoSnap,
     log |-> <<>>, result |-> <<>>, pre |-> NoPre, seen |-> <<>>, clean |-> FALSE,
     visit |-> <<>>]

\* ------------------------------------------------------------------------
\* Steps shared by the operations.
Upd(t, rec) == th' = [th EXCEPT ![t] = rec]

\* A caller may start an operation when it is not inside one.
CanCall(t, max) == th[t].pc \in {"idle", "done"} /\ nops < max

\* A call that subscribes or unsubscribes s for the topic has begun and has not
\* returned.
Busy(s, topic) ==
    \E u \in Threads :
        /\ th[u].pc \notin {"idle", "done"}
        /\ th[u].suber = s
        /\ \/ th[u].op \in {"Subscribe", "UnSubscribe"} /\ th[u].topic = topic
           \/ th[u].op = "UnSubscribeAll"

\* No such call is in progress for s, and the reverse index of s names exactly
\* the topics s is registered to.
Settled(s) ==
    \A topic \in Topics :
        /\ ~Busy(s, topic)
        /\ ((subTopic \o topic) \in DOMAIN md[s]) <=> Registered(s, topic)

\* The record of a freshly started operation. What rec asks for is noted with
\* it (history variables: no step reads them). "pre": the registry and the
\* metadata stores as they are at the call. "obs": for a Publish, per
\* subscriber, whether a call that subscribes or unsubscribes it for the topic
\* was in progress when the Publish began ("busy") or not ("quiet"); for an
\* UnSubscribeAll, whether its subscriber was settled when it began.
Started(op, s, topic, cb, msg, rec) ==
    [Idle EXCEPT !.op = op, !.suber = s, !.topic = topic, !.cb = cb, !.msg = msg,
                 !.pre = IF rec = "pre" THEN [bTopics |-> bTopics, md |-> md] ELSE NoPre,
                 !.seen = IF rec = "obs" /\ op = "Publish"
                          THEN [x \in Subs |-> IF Busy(x, topic) THEN "busy" ELSE "quiet"]
                          ELSE <<>>,
                 !.clean = rec = "obs" /\ op = "UnSubscribeAll" /\ Settled(s)]

\* What a call that subscribes or unsubscribes s for the topics, begun by
\* another caller, does to the notes of the record r: the Publish has seen
\* such a call begin after it ("later"), the UnSubscribeAll is no longer alone
\* with its subscriber.
Mark(r, s, topics) ==
    IF r.op = "Publish" /\ r.seen # <<>> /\ r.topic \in topics
    THEN [r EXCEPT !.seen[s] = "later"]
    ELSE IF r.op = "UnSubscribeAll" /\ r.suber = s
    THEN [r EXCEPT !.clean = FALSE]
    ELSE r

UpdMark(t, s, topics, rec) ==
    th' = [u \in Threads |-> IF u = t THEN rec ELSE Mark(th[u], s, topics)]

\* One mutex for all the buckets.
CanLockGlobal(b) == \A c \in DOMAIN lock : lock[c] = 0

\* A Lock that never waits.
CanLockAlways(b) == TRUE

\* sync.Mutex: Lock proceeds only when the mutex is free.
CanLock(b) == lock[b] = 0

\* A Lock that the thread holding the mutex may take again.
AcquireReentrant(t, b) == lock[b] \in {0, t} /\ lock' = [lock EXCEPT ![b] = t]

Acquire(t, b) == CanLock(b) /\ lock' = [lock EXCEPT ![b] = t]

\* An Unlock that leaves the mutex locked.
ReleaseNever(t, b) == lock' = lock

Release(t, b) == lock' = [lock EXCEPT ![b] = 0]

\* A subscribe that creates the registration of a new topic but leaves it empty.
subscribeBodyNoInsert(topics, s, topic, cb) ==
    LET ele == [suber |-> s, cb |-> cb]
        subId == GetSubscriberID(s)
    IN IF topic \notin DOMAIN topics
       THEN [k \in (DOMAIN topics) \cup {topic} |->
                IF k = topic THEN <<>> ELSE topics[k]]
       ELSE [topics EXCEPT ![topic] =
                [i \in (DOMAIN @) \cup {subId} |-> IF i = subId THEN ele ELSE @[i]]]

\* A subscribe that keeps the callback of a subscriber already registered.
subscribeBodyKeepOld(topics, s, topic, cb) ==
    LET ele == [suber |-> s, cb |-> cb]
        subId == GetSubscriberID(s)
    IN IF topic \notin DOMAIN topics
       THEN [k \in (DOMAIN topics) \cup {topic} |->
                IF k = topic THEN [i \in {subId} |-> ele] ELSE topics[k]]
       ELSE [topics EXCEPT ![topic] =
                [i \in (DOMAIN @) \cup {subId} |-> IF i \in DOMAIN @ THEN @[i] ELSE ele]]

\* bucket.subscribe, the part under the lock.
subscribeBody(topics, s, topic, cb) ==
    LET ele == [suber |-> s, cb |-> cb]
        subId == GetSubscriberID(s)
    IN IF topic \notin DOMAIN topics
       THEN [k \in (DOMAIN topics) \cup {topic} |->
                IF k = topic THEN [i \in {subId} |-> ele] ELSE topics[k]]
       ELSE [topics EXCEPT ![topic] =
                [i \in (DOMAIN @) \cup {subId} |-> IF i = subId THEN ele ELSE @[i]]]

\* An unSubscribe that drops the registration of a topic it has emptied.
unSubscribeBodyPrune(topics, s, topic) ==
    IF topic \in DOMAIN topics
    THEN IF (DOMAIN topics[topic]) \ {GetSubscriberID(s)} = {}
         THEN [k \in (DOMAIN topics) \ {topic} |-> topics[k]]
         ELSE [topics EXCEPT ![topic] =
                  [i \in (DOMAIN @) \ {GetSubscriberID(s)} |-> @[i]]]
    ELSE topics

\* An unSubscribe that deletes nothing.
unSubscribeBodyNothing(topics, s, topic) == topics

\* An unSubscribe that empties the registration of the topic.
unSubscribeBodyClear(topics, s, topic) ==
    IF topic \in DOMAIN topics
    THEN [topics EXCEPT ![topic] = <<>>]
    ELSE topics

\* bucket.unSubscribe, the part under the lock.
unSubscribeBody(topics, s, topic) ==
    IF topic \in DOMAIN topics
    THEN [topics EXCEPT ![topic] =
             [i \in (DOMAIN @) \ {GetSubscriberID(s)} |-> @[i]]]
    ELSE topics

\* ------------------------------------------------------------------------
\* The emitter after New, and after the Subscribe calls of a setup.
\* New: every bucket starts with an empty topic map.
NewBuckets == [b \in Buckets |-> <<>>]

\* The stores of the subscribers before any Subscribe: one of them carries a
\* key of its owner.
NewStores == [s \in Subs |-> IF s = 1 THEN [k \in {UserKey} |-> "u"] ELSE <<>>]

\* The topic maps, the metadata stores and the callbacks asked for after the
\* Subscribe calls of q have run one after the other.
RECURSIVE SetupBuckets(_, _)
SetupBuckets(q, buckets) ==
    IF q = <<>> THEN buckets
    ELSE SetupBuckets(Tail(q),
             [buckets EXCEPT ![getBucket(Head(q).topic)] =
                 subscribeBody(@, Head(q).suber, Head(q).topic, Head(q).cb)])

RECURSIVE SetupStores(_, _)
SetupStores(q, stores) ==
    IF q = <<>> THEN stores
    ELSE SetupStores(Tail(q),
             [stores EXCEPT ![Head(q).suber] =
                 SmapStore(@, subTopic \o Head(q).topic, Head(q).topic)])

RECURSIVE SetupAsked(_, _)
SetupAsked(q, a) ==
    IF q = <<>> THEN a
    ELSE SetupAsked(Tail(q), [a EXCEPT ![Head(q).suber][Head(q).topic] = Head(q).cb])

Init ==
    /\ \E c \in ConfBucketNums : confN = c /\ bucketNum = ConfigInit(c)
    \* the hash takes any values; the top one masks to bucket 0
    /\ hash \in [Topics -> 1 .. bucketNum]
    /\ lock = [b \in Buckets |-> 0]
    /\ \E q \in Setups :
           /\ bTopics = SetupBuckets(q, NewBuckets)
           /\ md = SetupStores(q, NewStores)
           /\ asked = SetupAsked(q, [s \in Subs |-> [topic \in Topics |-> "none"]])
           /\ last = SetupAsked(q, [s \in Subs |-> [topic \in Topics |-> "none"]])
           /\ ever = {q[i].topic : i \in DOMAIN q}
    /\ th = [t \in Threads |-> Idle]
    /\ stack = [t \in Threads |-> <<>>]
    /\ confPc = "done"
    /\ confX = bucketNum
    /\ nops = 0

\* ------------------------------------------------------------------------
\* EventEmitter.Subscribe.
Subscribe(t, max, rec) ==
    \E s \in Subs, topic \in Topics, f \in Callbacks :
        /\ CanCall(t, max)
        /\ md' = [md EXCEPT ![s] = SmapStore(@, subTopic \o topic, topic)]
        /\ UpdMark(t, s, {topic},
                   [Started("Subscribe", s, topic, f, "none", rec) EXCEPT !.pc = "sub_lock"])
        /\ asked' = [asked EXCEPT ![s][topic] = f]
        /\ nops' = nops + 1
        /\ UNCHANGED <<bucketNum, hash, lock, bTopics, last, ever>>

SubscribeLock(t) ==
    /\ th[t].pc = "sub_lock"
    /\ Acquire(t, getBucket(th[t].topic))
    /\ Upd(t, [th[t] EXCEPT !.pc = "sub_cs"])
    /\ UNCHANGED <<bucketNum, hash, bTopics, md, asked, last, ever, nops>>

SubscribeBody(t) ==
    LET me == th[t]
        b == getBucket(me.topic)
    IN /\ me.pc = "sub_cs"
       /\ bTopics' = [bTopics EXCEPT ![b] = subscribeBody(@, me.suber, me.topic, me.cb)]
       /\ Release(t, b)
       /\ Upd(t, [me EXCEPT !.pc = "done"])
       /\ last' = [last EXCEPT ![me.suber][me.topic] = me.cb]
       /\ ever' = ever \cup {me.topic}
       /\ UNCHANGED <<bucketNum, hash, md, asked, nops>>

\* EventEmitter.UnSubscribe.
UnSubscribe(t, max, rec) ==
    \E s \in Subs, topic \in Topics :
        /\ CanCall(t, max)
        /\ md' = [md EXCEPT ![s] = SmapDelete(@, subTopic \o topic)]
        /\ UpdMark(t, s, {topic},
                   [Started("UnSubscribe", s, topic, "none", "none", rec) EXCEPT
                       !.pc = "unsub_lock"])
        /\ asked' = [asked EXCEPT ![s][topic] = "none"]
        /\ nops' = nops + 1
        /\ UNCHANGED <<bucketNum, hash, lock, bTopics, last, ever>>

UnSubscribeLock(t) ==
    /\ th[t].pc = "unsub_lock"
    /\ Acquire(t, getBucket(th[t].topic))
    /\ Upd(t, [th[t] EXCEPT !.pc = "unsub_cs"])
    /\ UNCHANGED <<bucketNum, hash, bTopics, md, asked, last, ever, nops>>

UnSubscribeBody(t) ==
    LET me == th[t]
        b == getBucket(me.topic)
    IN /\ me.pc = "unsub_cs"
       /\ bTopics' = [bTopics EXCEPT ![b] = unSubscribeBody(@, me.suber, me.topic)]
       /\ Release(t, b)
       /\ Upd(t, [me EXCEPT !.pc = "done"])
       /\ last' = [last EXCEPT ![me.suber][me.topic] = "none"]
       /\ UNCHANGED <<bucketNum, hash, md, asked, ever, nops>>

\* EventEmitter.UnSubscribeAll: the Range that collects the topics, then one
\* Delete and one bucket.unSubscribe per collected topic.
UnSubscribeAll(t, max, rec) ==
    \E s \in Subs :
        \E q \in Orders(DOMAIN md[s]) :
            LET topics == CollectTopics(md[s], q)
            IN /\ CanCall(t, max)
               /\ UpdMark(t, s, Topics,
                          [Started("UnSubscribeAll", s, "", "none", "none", rec) EXCEPT
                              !.todo = topics,
                              !.pc = IF topics = <<>> THEN "done" ELSE "ua_del"])
               /\ asked' = [asked EXCEPT ![s] = [topic \in Topics |-> "none"]]
               /\ nops' = nops + 1
               /\ UNCHANGED <<bucketNum, hash, lock, bTopics, md, last, ever>>

UnSubscribeAllDelete(t) ==
    LET me == th[t]
    IN /\ me.pc = "ua_del"
       /\ md' = [md EXCEPT ![me.suber] = SmapDelete(@, subTopic \o Head(me.todo))]
       /\ Upd(t, [me EXCEPT !.pc = "ua_lock"])
       /\ UNCHANGED <<bucketNum, hash, lock, bTopics, asked, last, ever, nops>>

UnSubscribeAllLock(t) ==
    /\ th[t].pc = "ua_lock"
    /\ Acquire(t, getBucket(Head(th[t].todo)))
    /\ Upd(t, [th[t] EXCEPT !.pc = "ua_cs"])
    /\ UNCHANGED <<bucketNum, hash, bTopics, md, asked, last, ever, nops>>

UnSubscribeAllBody(t) ==
    LET me == th[t]
        topic == Head(me.todo)
        b == getBucket(topic)
    IN /\ me.pc = "ua_cs"
       /\ bTopics' = [bTopics EXCEPT ![b] = unSubscribeBody(@, me.suber, topic)]
       /\ Release(t, b)
       /\ Upd(t, [me EXCEPT !.todo = Tail(@),
                            !.pc = IF Tail(me.todo) = <<>> THEN "done" ELSE "ua_del"])
       /\ last' = [last EXCEPT ![me.suber][topic] = "none"]
       /\ UNCHANGED <<bucketNum, hash, md, asked, ever, nops>>

\* ------------------------------------------------------------------------
\* EventEmitter.Publish and bucket.publish.
Publish(t, max, rec) ==
    \E topic \in Topics, msg \in Msgs :
        /\ CanCall(t, max)
        /\ Upd(t, [Started("Publish", 0, topic, "none", msg, rec) EXCEPT !.pc = "pub_lock"])
        /\ nops' = nops + 1
        /\ UNCHANGED <<bucketNum, hash, lock, bTopics, md, asked, last, ever>>

\* What the publisher finds for its topic right after Lock returns.
Lookup(b, topic) ==
    IF topic \in DOMAIN bTopics[b]
    THEN [ok |-> TRUE, subers |-> bTopics[b][topic]]
    ELSE NoSnap

PublishLock(t) ==
    LET me == th[t]
        b == getBucket(me.topic)
    IN /\ me.pc = "pub_lock"
       /\ Acquire(t, b)
       /\ Upd(t, [me EXCEPT !.pc = "pub_iter", !.snap = Lookup(b, me.topic)])
       /\ UNCHANGED <<bucketNum, hash, bTopics, md, asked, last, ever, nops>>

\* A publish that ranges over the subscribers of every topic of the bucket.
PendingAnyTopic(b, topic, visited) ==
    UNION {{<<id, bTopics[b][k][id]>> : id \in (DOMAIN bTopics[b][k]) \ visited} :
              k \in DOMAIN bTopics[b]}

\* The entries of the topic's subers map the range loop has still to reach, each
\* as the pair of its key and its element.
Pending(b, topic, visited) ==
    IF topic \in DOMAIN bTopics[b]
    THEN {<<id, bTopics[b][topic][id]>> : id \in (DOMAIN bTopics[b][topic]) \ visited}
    ELSE {}

\* The call v.cb(v.suber, msg) as the log records it.
CallOf(v, msg) == [kind |-> "cb", suber |-> v.suber, cb |-> v.cb, msg |-> msg]

\* A publish that takes a subscriber off the topic once it has called it.
PublishIterOnce(t) ==
    LET me == th[t]
        b == getBucket(me.topic)
    IN /\ me.pc = "pub_iter"
       /\ me.snap.ok
       /\ \E e \in Pending(b, me.topic, me.visited) :
              /\ Upd(t, [me EXCEPT !.visited = @ \cup {e[1]},
                                   !.log = Append(@, CallOf(e[2], me.msg))])
              /\ bTopics' = [bTopics EXCEPT ![b] = unSubscribeBody(@, e[2].suber, me.topic)]
       /\ UNCHANGED <<bucketNum, hash, lock, md, asked, last, ever, nops>>

\* One iteration of the range loop of bucket.publish.
PublishIter(t) ==
    LET me == th[t]
        b == getBucket(me.topic)
    IN /\ me.pc = "pub_iter"
       /\ me.snap.ok
       /\ \E e \in Pending(b, me.topic, me.visited) :
              Upd(t, [me EXCEPT !.visited = @ \cup {e[1]},
                                !.log = Append(@, CallOf(e[2], me.msg))])
       /\ UNCHANGED <<bucketNum, hash, lock, bTopics, md, asked, last, ever, nops>>

\* The early return of bucket.publish, or the end of its loop; the deferred Unlock.
PublishEnd(t) ==
    LET me == th[t]
        b == getBucket(me.topic)
    IN /\ me.pc = "pub_iter"
       /\ ~me.snap.ok \/ Pending(b, me.topic, me.visited) = {}
       /\ Release(t, b)
       /\ Upd(t, [me EXCEPT !.pc = "done"])
       /\ UNCHANGED <<bucketNum, hash, bTopics, md, asked, last, ever, nops>>

\* EventEmitter.PublishE and bucket.publish_e.
PublishE(t, max, rec) ==
    \E topic \in Topics, msg \in Msgs :
        /\ CanCall(t, max)
        /\ Upd(t, [Started("PublishE", 0, topic, "none", msg, rec) EXCEPT !.pc = "pube_lock"])
        /\ nops' = nops + 1
        /\ UNCHANGED <<bucketNum, hash, lock, bTopics, md, asked, last, ever>>

\* A publish_e that creates the registration of a topic it does not find.
PublishELockCreates(t) ==
    LET me == th[t]
        b == getBucket(me.topic)
    IN /\ me.pc = "pube_lock"
       /\ Acquire(t, b)
       /\ bTopics' = [bTopics EXCEPT ![b] =
              IF me.topic \in DOMAIN @ THEN @
              ELSE [k \in (DOMAIN @) \cup {me.topic} |-> IF k = me.topic THEN <<>> ELSE @[k]]]
       /\ Upd(t, [me EXCEPT !.pc = "pube_iter", !.snap = Lookup(b, me.topic)])
       /\ UNCHANGED <<bucketNum, hash, md, asked, last, ever, nops>>

PublishELock(t) ==
    LET me == th[t]
        b == getBucket(me.topic)
    IN /\ me.pc = "pube_lock"
       /\ Acquire(t, b)
       /\ Upd(t, [me EXCEPT !.pc = "pube_iter", !.snap = Lookup(b, me.topic)])
       /\ UNCHANGED <<bucketNum, hash, bTopics, md, asked, last, ever, nops>>

\* An iteration that reports to f only the errors.
IterEOnlyErrors(v, msg, skip, err) ==
    <<[kind |-> "check", suber |-> v.suber, skip |-> skip]>>
    \o (IF ~skip
        THEN <<[kind |-> "cb", suber |-> v.suber, cb |-> v.cb, msg |-> msg, err |-> err]>>
             \o (IF err # "nil" THEN <<[kind |-> "result", suber |-> v.suber, err |-> err]>>
                 ELSE <<>>)
        ELSE <<>>)

\* What one iteration of the loop of bucket.publish_e does for the entry v,
\* when checkSent answers skip and the callback returns err.
IterE(v, msg, skip, err) ==
    <<[kind |-> "check", suber |-> v.suber, skip |-> skip]>>
    \o (IF ~skip
        THEN <<[kind |-> "cb", suber |-> v.suber, cb |-> v.cb, msg |-> msg, err |-> err],
               [kind |-> "result", suber |-> v.suber, err |-> err]>>
        ELSE <<>>)

PublishEIter(t) ==
    LET me == th[t]
        b == getBucket(me.topic)
    IN /\ me.pc = "pube_iter"
       /\ me.snap.ok
       /\ \E e \in Pending(b, me.topic, me.visited) :
          \E skip \in BOOLEAN, err \in Errs :
              Upd(t, [me EXCEPT !.visited = @ \cup {e[1]},
                                !.log = @ \o IterE(e[2], me.msg, skip, err)])
       /\ UNCHANGED <<bucketNum, hash, lock, bTopics, md, asked, last, ever, nops>>

PublishEEnd(t) ==
    LET me == th[t]
        b == getBucket(me.topic)
    IN /\ me.pc = "pube_iter"
       /\ ~me.snap.ok \/ Pending(b, me.topic, me.visited) = {}
       /\ Release(t, b)
       /\ Upd(t, [me EXCEPT !.pc = "done"])
       /\ UNCHANGED <<bucketNum, hash, bTopics, md, asked, last, ever, nops>>

\* ------------------------------------------------------------------------
\* EventEmitter.CountSubscriberByTopic and bucket.countTopicSubscriber.
CountSubscriberByTopic(t, max, rec) ==
    \E topic \in Topics :
        /\ CanCall(t, max)
        /\ Upd(t, [Started("Count", 0, topic, "none", "none", rec) EXCEPT !.pc = "cnt_lock"])
        /\ nops' = nops + 1
        /\ UNCHANGED <<bucketNum, hash, lock, bTopics, md, asked, last, ever>>

CountLock(t) ==
    /\ th[t].pc = "cnt_lock"
    /\ Acquire(t, getBucket(th[t].topic))
    /\ Upd(t, [th[t] EXCEPT !.pc = "cnt_cs"])
    /\ UNCHANGED <<bucketNum, hash, bTopics, md, asked, last, ever, nops>>

CountBody(t) ==
    LET me == th[t]
        b == getBucket(me.topic)
    IN /\ me.pc = "cnt_cs"
       /\ Release(t, b)
       /\ Upd(t, [me EXCEPT !.pc = "done", !.result = <<countTopicSubscriber(b, me.topic)>>])
       /\ UNCHANGED <<bucketNum, hash, bTopics, md, asked, last, ever, nops>>

\* EventEmitter.GetTopicsBySubscriber: one Range over the metadata store.
GetTopicsBySubscriber(t, max, rec) ==
    \E s \in Subs :
        \E q \in Orders(DOMAIN md[s]) :
            /\ CanCall(t, max)
            /\ Upd(t, [Started("GetTopics", s, "", "none", "none", rec) EXCEPT
                          !.pc = "done", !.result = CollectTopics(md[s], q)])
            /\ nops' = nops + 1
            /\ UNCHANGED <<bucketNum, hash, lock, bTopics, md, asked, last, ever>>

\* EventEmitter.TopicStatus: bucket.TopicStatus of every bucket in turn.
TopicStatus(t, max, rec) ==
    /\ CanCall(t, max)
    /\ Upd(t, [Started("TopicStatus", 0, "", "none", "none", rec) EXCEPT !.pc = "ts_lock"])
    /\ nops' = nops + 1
    /\ UNCHANGED <<bucketNum, hash, lock, bTopics, md, asked, last, ever>>

TopicStatusLock(t) ==
    /\ th[t].pc = "ts_lock"
    /\ Acquire(t, th[t].i)
    /\ Upd(t, [th[t] EXCEPT !.pc = "ts_cs"])
    /\ UNCHANGED <<bucketNum, hash, bTopics, md, asked, last, ever, nops>>

\* A status that leaves out the topics without subscribers.
bucketTopicStatusSkipEmpty(b, q) ==
    LET Live(topic) == DOMAIN bTopics[b][topic] # {}
        live == SelectSeq(q, Live)
    IN [k \in DOMAIN live |->
           [Topic |-> live[k], Count |-> Cardinality(DOMAIN bTopics[b][live[k]])]]

\* The status entries of one bucket, in the order q of its range loop.
bucketTopicStatus(b, q) ==
    [k \in DOMAIN q |-> [Topic |-> q[k], Count |-> Cardinality(DOMAIN bTopics[b][q[k]])]]

TopicStatusBody(t) ==
    LET me == th[t]
    IN /\ me.pc = "ts_cs"
       /\ Release(t, me.i)
       /\ \E q \in Orders(DOMAIN bTopics[me.i]) :
              Upd(t, [me EXCEPT !.result = @ \o bucketTopicStatus(me.i, q),
                                !.i = @ + 1,
                                !.pc = IF me.i + 1 = bucketNum THEN "done" ELSE "ts_lock"])
       /\ UNCHANGED <<bucketNum, hash, bTopics, md, asked, last, ever, nops>>

\* ------------------------------------------------------------------------
\* The steps of one caller: the start of a call (max bounds the number of
\* calls started) and the steps of the call it is in.
Call(t, max, rec) ==
    \/ Subscribe(t, max, rec) \/ UnSubscribe(t, max, rec) \/ UnSubscribeAll(t, max, rec)
    \/ Publish(t, max, rec) \/ PublishE(t, max, rec)
    \/ CountSubscriberByTopic(t, max, rec) \/ GetTopicsBySubscriber(t, max, rec)
    \/ TopicStatus(t, max, rec)

Continue(t) ==
    \/ SubscribeLock(t) \/ SubscribeBody(t)
    \/ UnSubscribeLock(t) \/ UnSubscribeBody(t)
    \/ UnSubscribeAllDelete(t) \/ UnSubscribeAllLock(t) \/ UnSubscribeAllBody(t)
    \/ PublishLock(t) \/ PublishIter(t) \/ PublishEnd(t)
    \/ PublishELock(t) \/ PublishEIter(t) \/ PublishEEnd(t)
    \/ CountLock(t) \/ CountBody(t)
    \/ TopicStatusLock(t) \/ TopicStatusBody(t)

Proceed(t) == Continue(t) /\ UNCHANGED <<stack, confN, confPc, confX>>

Step(t, max, rec) ==
    \/ Call(t, max, rec) /\ UNCHANGED <<stack, confN, confPc, confX>>
    \/ Proceed(t)

\* Concurrent callers: any interleaving of their steps.
Next == \E t \in Threads : Step(t, MaxOps, "none")

Spec == Init /\ [][Next]_vars

\* Non-overlapping calls: one caller makes every call, each after the one
\* before has returned.
SeqCaller == CHOOSE t \in Threads : \A u \in Threads : t <= u

SeqNext == Step(SeqCaller, MaxSeqOps, "pre")

\* Concurrent callers that subscribe, unsubscribe and publish, and whose
\* Publish and UnSubscribeAll calls note what went on around them.
ObsStep(t) ==
    /\ UNCHANGED <<stack, confN, confPc, confX>>
    /\ \/ Subscribe(t, MaxObsOps, "obs") \/ SubscribeLock(t) \/ SubscribeBody(t)
       \/ UnSubscribe(t, MaxObsOps, "obs") \/ UnSubscribeLock(t) \/ UnSubscribeBody(t)
       \/ UnSubscribeAll(t, MaxObsOps, "obs") \/ UnSubscribeAllDelete(t)
       \/ UnSubscribeAllLock(t) \/ UnSubscribeAllBody(t)
       \/ Publish(t, MaxObsOps, "obs") \/ PublishLock(t) \/ PublishIter(t)
       \/ PublishEnd(t)

ObsNext == \E t \in Threads : ObsStep(t)

ObsSpec == Init /\ [][ObsNext]_vars

\* ------------------------------------------------------------------------
\* The metadata store of a subscriber, used directly: Store, Delete, Load and
\* Range, each under the store's lock and so one step.
StoreFrame ==
    UNCHANGED <<bucketNum, hash, lock, bTopics, asked, last, ever, stack, confN, confPc,
                confX>>

Store(t) ==
    /\ CanCall(t, MaxStoreOps)
    /\ \E s \in Subs, key \in StoreKeys, value \in StoreValues :
           /\ md' = [md EXCEPT ![s] = SmapStore(@, key, value)]
           /\ Upd(t, [Started("Store", s, key, "none", "none", "none") EXCEPT !.pc = "done"])
    /\ nops' = nops + 1
    /\ StoreFrame

Delete(t) ==
    /\ CanCall(t, MaxStoreOps)
    /\ \E s \in Subs, key \in StoreKeys :
           /\ md' = [md EXCEPT ![s] = SmapDelete(@, key)]
           /\ Upd(t, [Started("Delete", s, key, "none", "none", "none") EXCEPT !.pc = "done"])
    /\ nops' = nops + 1
    /\ StoreFrame

Load(t) ==
    /\ CanCall(t, MaxStoreOps)
    /\ \E s \in Subs, key \in StoreKeys :
           Upd(t, [Started("Load", s, key, "none", "none", "none") EXCEPT
                     !.pc = "done", !.result = SmapLoad(md[s], key)])
    /\ nops' = nops + 1
    /\ UNCHANGED md
    /\ StoreFrame

Range(t) ==
    /\ CanCall(t, MaxStoreOps)
    /\ \E s \in Subs :
           \E q \in Orders(DOMAIN md[s]), f \in [DOMAIN md[s] -> BOOLEAN] :
               Upd(t, [Started("Range", s, "", "none", "none", "none") EXCEPT
                         !.pc = "done", !.visit = f, !.result = RangeVisit(q, f)])
    /\ nops' = nops + 1
    /\ UNCHANGED md
    /\ StoreFrame

\* One caller: every operation of the store is one step under its lock.
StoreNext ==
    \/ Store(SeqCaller)
    \/ Delete(SeqCaller)
    \/ Load(SeqCaller)
    \/ Range(SeqCaller)

\* The stores as New leaves them to the callers, before any Subscribe has put
\* its reverse index into them.
StoreInit == Init /\ md = NewStores

StoreSpec == StoreInit /\ [][StoreNext]_vars

\* ------------------------------------------------------------------------
\* Callbacks that call the emitter, and callbacks that do not return.

\* The publish of caller t is about to invoke the callback of the entry e; the
\* record of the publish once it has made the call: a Publish calls v.cb, a
\* PublishE for which checkSent answered false calls v.cb, which will return
\* err.
Invoking(t, e, err) ==
    [th[t] EXCEPT !.visited = @ \cup {e[1]},
                  !.log = IF th[t].pc = "pub_iter"
                          THEN Append(@, CallOf(e[2], th[t].msg))
                          ELSE @ \o IterE(e[2], th[t].msg, FALSE, err)]

\* The callback begins to run on the publisher's thread, with the bucket's
\* mutex held: the publish waits for it, and the thread is free to call the
\* emitter from inside it.
CallbackEnters(t) ==
    /\ th[t].pc \in {"pub_iter", "pube_iter"}
    /\ th[t].snap.ok
    /\ \E e \in Pending(getBucket(th[t].topic), th[t].topic, th[t].visited), err \in Errs :
           /\ stack' = [stack EXCEPT ![t] = <<Invoking(t, e, err)>> \o @]
           /\ th' = [th EXCEPT ![t] = Idle]
    /\ UNCHANGED <<bucketNum, hash, lock, bTopics, md, asked, last, ever, confN, confPc,
                   confX, nops>>

\* The callback returns, after the calls it made have returned: the publish
\* goes on with its loop.
CallbackReturns(t) ==
    /\ stack[t] # <<>>
    /\ th[t].pc \in {"idle", "done"}
    /\ th' = [th EXCEPT ![t] = Head(stack[t])]
    /\ stack' = [stack EXCEPT ![t] = Tail(@)]
    /\ UNCHANGED <<bucketNum, hash, lock, bTopics, md, asked, last, ever, confN, confPc,
                   confX, nops>>

\* The callback blocks and never returns.
CallbackHangs(t) ==
    /\ th[t].pc \in {"pub_iter", "pube_iter"}
    /\ th[t].snap.ok
    /\ \E e \in Pending(getBucket(th[t].topic), th[t].topic, th[t].visited), err \in Errs :
           th' = [th EXCEPT ![t] = [Invoking(t, e, err) EXCEPT !.pc = "cb_hang"]]
    /\ UNCHANGED <<bucketNum, hash, lock, bTopics, md, asked, last, ever, stack, confN,
                   confPc, confX, nops>>

\* Callers, and callbacks, that subscribe, unsubscribe, publish and read the
\* counts.
ReStep(t) ==
    /\ UNCHANGED <<stack, confN, confPc, confX>>
    /\ \/ Subscribe(t, MaxReOps, "none") \/ SubscribeLock(t) \/ SubscribeBody(t)
       \/ UnSubscribe(t, MaxReOps, "none") \/ UnSubscribeLock(t) \/ UnSubscribeBody(t)
       \/ Publish(t, MaxReOps, "none") \/ PublishLock(t) \/ PublishIter(t)
       \/ PublishEnd(t)
       \/ CountSubscriberByTopic(t, MaxReOps, "none") \/ CountLock(t) \/ CountBody(t)
       \/ TopicStatus(t, MaxReOps, "none") \/ TopicStatusLock(t) \/ TopicStatusBody(t)

ReNext ==
    \E t \in Threads :
        \/ ReStep(t)
        \/ CallbackEnters(t) \/ CallbackReturns(t) \/ CallbackHangs(t)

ReSpec == Init /\ [][ReNext]_vars

\* ------------------------------------------------------------------------
\* Config.init, step by step, for every value of BucketNum: the emitter is not
\* built yet.
ConfInit ==
    /\ confN \in MinInt .. MaxInt
    /\ bucketNum = confN
    /\ confPc = "init"
    /\ confX = 0
    /\ hash = [topic \in Topics |-> 0]
    /\ lock = <<>>
    /\ bTopics = <<>>
    /\ md = NewStores
    /\ asked = [s \in Subs |-> [topic \in Topics |-> "none"]]
    /\ last = [s \in Subs |-> [topic \in Topics |-> "none"]]
    /\ ever = {}
    /\ th = [t \in Threads |-> Idle]
    /\ stack = [t \in Threads |-> <<>>]
    /\ nops = 0

\* What Config.init leaves alone.
ConfFrame ==
    UNCHANGED <<hash, lock, bTopics, md, th, asked, last, ever, stack, confN, nops>>

\* The default of BucketNum, and the entry into toBinaryNumber.
ConfDefault ==
    /\ confPc = "init"
    /\ bucketNum' = IF bucketNum <= 0 THEN 16 ELSE bucketNum
    /\ confX' = 1
    /\ confPc' = "loop"
    /\ ConfFrame

\* One iteration of the loop of toBinaryNumber.
ConfLoop ==
    /\ confPc = "loop"
    /\ confX < bucketNum
    /\ confX' = Wrap(confX * 2)
    /\ UNCHANGED <<bucketNum, confPc>>
    /\ ConfFrame

\* The return of toBinaryNumber and the assignment to BucketNum.
ConfReturn ==
    /\ confPc = "loop"
    /\ ~(confX < bucketNum)
    /\ bucketNum' = confX
    /\ confPc' = "done"
    /\ UNCHANGED confX
    /\ ConfFrame

ConfNext == ConfDefault \/ ConfLoop \/ ConfReturn

ConfSpec == ConfInit /\ [][ConfNext]_vars

\* Concurrent callers under a fair scheduler: a caller that is inside a call
\* and can take its next step (its callback returns, the mutex it waits for is
\* free) eventually takes it. Starting a call is left to the caller.
FairSpec == Spec /\ \A t \in Threads : WF_vars(Proceed(t))

SeqSpec == Init /\ [][SeqNext]_vars

\* ------------------------------------------------------------------------
\* Properties.

\* No caller is inside an operation.
Quiescent == \A t \in Threads : th[t].pc \in {"idle", "done"}

\* Caller t has just returned from operation op.
Returned(t, op) == th[t].pc = "done" /\ th[t].op = op

\* The caller of the non-overlapping calls, and its operation's bucket, the
\* subscriber's ID and the topic's registration as it was at the call.
Me == th[SeqCaller]
MyBucket == getBucket(Me.topic)
MyId == GetSubscriberID(Me.suber)
HadTopic == Me.topic \in DOMAIN Me.pre.bTopics[MyBucket]
PreSubers == Me.pre.bTopics[MyBucket][Me.topic]
WasRegistered == HadTopic /\ MyId \in DOMAIN PreSubers

\* The positions of the log of the caller's publish that are about subscriber s.
LogOf(s) == {i \in DOMAIN Me.log : Me.log[i].suber = s}
CallsOf(s) == {i \in LogOf(s) : Me.log[i].kind = "cb"}

\* The reverse index of s holds T exactly when s is in the registration of T.
InLockStep ==
    \A s \in Subs, topic \in Topics :
        ((subTopic \o topic) \in DOMAIN md[s]) <=> Registered(s, topic)

\* C1: a Publish that has returned has invoked, exactly once each and with its
\* message, the callback of every subscriber that was in the topic's
\* registration when it took the bucket's lock, and has invoked nothing else.
C1_PublishInvokesRegistered ==
    \A t \in Threads :
        Returned(t, "Publish") =>
            LET me == th[t]
                reg == me.snap.subers
            IN /\ Len(me.log) = Cardinality(DOMAIN reg)
               /\ \A id \in DOMAIN reg :
                      /\ GetSubscriberID(reg[id].suber) = id
                      /\ Cardinality({i \in DOMAIN me.log :
                             me.log[i] = [kind |-> "cb", suber |-> reg[id].suber,
                                          cb |-> reg[id].cb, msg |-> me.msg]}) = 1

\* A Publish has returned after invoking a callback, while the same bucket
\* holds another topic with a subscriber who is not registered to the
\* published topic.
C1_Witness ==
    \E t \in Threads :
        /\ Returned(t, "Publish")
        /\ Len(th[t].log) >= 1
        /\ \E k \in (DOMAIN bTopics[getBucket(th[t].topic)]) \ {th[t].topic} :
               (DOMAIN bTopics[getBucket(th[t].topic)][k]) \ (DOMAIN th[t].snap.subers) # {}

\* C2: after any sequence of non-overlapping calls, between calls, the reverse
\* index of every subscriber and the registrations agree.
C2_SeqLockStep == Quiescent => InLockStep

\* Between non-overlapping calls a subscriber is registered to one topic and,
\* after an UnSubscribe that removed it, no longer to the other.
C2_Witness ==
    /\ Returned(SeqCaller, "UnSubscribe")
    /\ WasRegistered
    /\ \E topic \in Topics \ {Me.topic} : Registered(Me.suber, topic)

\* C3: under any interleaving of concurrent calls, whenever no call is in
\* progress the reverse index of every subscriber and the registrations agree.
C3_ConcurrentLockStep == Quiescent => InLockStep

\* EventEmitter.GetTopicsBySubscriber(s) contains topic, whatever the order of
\* the Range.
TopicsBySubscriberHas(s, topic) ==
    \A q \in Orders(DOMAIN md[s]) : topic \in SeqToSet(CollectTopics(md[s], q))

\* C4: right after Subscribe(S, T, cb) returns, GetTopicsBySubscriber(S)
\* contains T and CountSubscriberByTopic(T) is at least 1.
C4_AfterSubscribe ==
    Returned(SeqCaller, "Subscribe") =>
        /\ TopicsBySubscriberHas(Me.suber, Me.topic)
        /\ countTopicSubscriber(MyBucket, Me.topic) >= 1

\* A Subscribe to a topic that had no registration has returned.
C4_Witness ==
    /\ Returned(SeqCaller, "Subscribe")
    /\ ~HadTopic

\* C5: a Subscribe of a subscriber already registered to the topic leaves the
\* topic's count and the subscriber's topics as they were and installs the new
\* callback; a Publish then invokes, for every subscriber, the callback of its
\* latest Subscribe, once.
C5_Resubscribe ==
    /\ (Returned(SeqCaller, "Subscribe") /\ WasRegistered) =>
           /\ countTopicSubscriber(MyBucket, Me.topic) = Cardinality(DOMAIN PreSubers)
           /\ TopicsOfStore(md[Me.suber]) = TopicsOfStore(Me.pre.md[Me.suber])
           /\ bTopics[MyBucket][Me.topic][MyId] = [suber |-> Me.suber, cb |-> Me.cb]
    /\ Returned(SeqCaller, "Publish") =>
           \A s \in Subs :
               asked[s][Me.topic] # "none" =>
                   /\ Cardinality(CallsOf(s)) = 1
                   /\ \A i \in CallsOf(s) : Me.log[i].cb = asked[s][Me.topic]

\* A Subscribe has returned that replaced a different callback of its subscriber.
C5_Witness ==
    /\ Returned(SeqCaller, "Subscribe")
    /\ WasRegistered
    /\ PreSubers[MyId].cb # Me.cb

\* C6: an UnSubscribe of a registered subscriber removes the topic from the
\* subscriber's topics, lowers the topic's count by one and leaves the other
\* subscribers of the topic registered; an UnSubscribe of a subscriber that is
\* not registered to the topic changes nothing.
C6_UnSubscribe ==
    Returned(SeqCaller, "UnSubscribe") =>
        IF WasRegistered
        THEN /\ Me.topic \notin TopicsOfStore(md[Me.suber])
             /\ TopicsOfStore(md[Me.suber]) = TopicsOfStore(Me.pre.md[Me.suber]) \ {Me.topic}
             /\ countTopicSubscriber(MyBucket, Me.topic) = Cardinality(DOMAIN PreSubers) - 1
             /\ \A o \in (DOMAIN PreSubers) \ {MyId} :
                    /\ o \in DOMAIN bTopics[MyBucket][Me.topic]
                    /\ bTopics[MyBucket][Me.topic][o] = PreSubers[o]
        ELSE bTopics = Me.pre.bTopics /\ md = Me.pre.md

\* An UnSubscribe has returned that removed one of the two subscribers of a topic.
C6_Witness ==
    /\ Returned(SeqCaller, "UnSubscribe")
    /\ WasRegistered
    /\ Cardinality(DOMAIN PreSubers) = 2

\* C7: after UnSubscribeAll(S) the subscriber has no topics and is in no
\* registration of any bucket, and a later publish invokes nothing for a
\* subscriber whose subscription to the topic was cancelled; UnSubscribeAll
\* of a subscriber without subscriptions changes nothing.
C7_UnSubscribeAll ==
    /\ Returned(SeqCaller, "UnSubscribeAll") =>
           /\ TopicsOfStore(md[Me.suber]) = {}
           /\ \A b \in Buckets : \A k \in DOMAIN bTopics[b] : MyId \notin DOMAIN bTopics[b][k]
           /\ TopicsOfStore(Me.pre.md[Me.suber]) = {} =>
                  bTopics = Me.pre.bTopics /\ md = Me.pre.md
    /\ (Returned(SeqCaller, "Publish") \/ Returned(SeqCaller, "PublishE")) =>
           \A s \in Subs : asked[s][Me.topic] = "none" => LogOf(s) = {}

\* An UnSubscribeAll has returned for a subscriber that had two topics.
C7_Witness ==
    /\ Returned(SeqCaller, "UnSubscribeAll")
    /\ Cardinality(TopicsOfStore(Me.pre.md[Me.suber])) = 2

\* C8 as stated: a Publish or PublishE to the empty-string topic, or to a
\* topic without a registration, invokes nothing and leaves the registry as it
\* was.
C8_EmptyTopicInvokesNothing ==
    ((Returned(SeqCaller, "Publish") \/ Returned(SeqCaller, "PublishE"))
     /\ (Me.topic = "" \/ ~HadTopic)) =>
        /\ Me.log = <<>>
        /\ bTopics = Me.pre.bTopics
        /\ md = Me.pre.md

\* C8 amended: a Publish or PublishE to a topic without a registration, the
\* empty string included, invokes no callback, no checkSent and no f, returns,
\* and leaves the registry as it was: no registration is created.
C8_UnregisteredTopic ==
    ((Returned(SeqCaller, "Publish") \/ Returned(SeqCaller, "PublishE")) /\ ~HadTopic) =>
        /\ Me.log = <<>>
        /\ Me.topic \notin DOMAIN bTopics[MyBucket]
        /\ bTopics = Me.pre.bTopics
        /\ md = Me.pre.md

\* A PublishE to a topic without a registration has returned, while another
\* topic of the same bucket has a subscriber.
C8_Witness ==
    /\ Returned(SeqCaller, "PublishE")
    /\ ~HadTopic
    /\ \E k \in DOMAIN bTopics[MyBucket] : DOMAIN bTopics[MyBucket][k] # {}

\* C9: a PublishE that has returned has asked checkSent once for every
\* registered subscriber; where the answer was false it has then invoked the
\* callback once and passed its result, nil or not, to f once; where it was
\* true it has invoked neither; and nothing else was called.
C9_PublishE ==
    Returned(SeqCaller, "PublishE") =>
        LET reg == Me.snap.subers
            log == Me.log
            At(kind, s) == {i \in LogOf(s) : log[i].kind = kind}
        IN /\ \A i \in DOMAIN log : \E id \in DOMAIN reg : log[i].suber = reg[id].suber
           /\ \A id \in DOMAIN reg :
                  LET s == reg[id].suber
                  IN /\ Cardinality(At("check", s)) = 1
                     /\ \A c \in At("check", s) :
                            IF log[c].skip
                            THEN At("cb", s) = {} /\ At("result", s) = {}
                            ELSE /\ At("cb", s) = {c + 1}
                                 /\ At("result", s) = {c + 2}
                                 /\ log[c + 1].cb = reg[id].cb
                                 /\ log[c + 1].msg = Me.msg
                                 /\ log[c + 2].err = log[c + 1].err

\* A PublishE has returned whose first callback returned an error and that
\* went on to the second subscriber, whose callback returned nil.
C9_Witness ==
    /\ Returned(SeqCaller, "PublishE")
    /\ Len(Me.log) = 6
    /\ Me.log[2].err = "err"
    /\ Me.log[5].err = "nil"

\* The bucket whose critical section the caller with record r is in, -1 if none.
CSBucket(r) ==
    IF r.pc \in {"sub_cs", "unsub_cs", "pub_iter", "pube_iter", "cnt_cs"}
    THEN getBucket(r.topic)
    ELSE IF r.pc = "ua_cs" THEN getBucket(Head(r.todo))
    ELSE IF r.pc = "ts_cs" THEN r.i
    ELSE -1

\* At most one caller is in the critical section of a bucket, and it holds
\* the bucket's lock.
MutualExclusion ==
    \A t \in Threads :
        CSBucket(th[t]) # -1 =>
            /\ lock[CSBucket(th[t])] = t
            /\ \A u \in Threads \ {t} : CSBucket(th[u]) # CSBucket(th[t])

\* While a publish iterates, a step leaves the bucket's topic map as it is and
\* no other caller enters or acts in the bucket's critical section.
PublishUndisturbed ==
    \A t \in Threads :
        (th[t].pc \in {"pub_iter", "pube_iter"}) =>
            LET b == getBucket(th[t].topic)
            IN /\ bTopics'[b] = bTopics[b]
               /\ \A u \in Threads \ {t} :
                      /\ CSBucket(th[u]) # b
                      /\ CSBucket(th'[u]) # b

\* C10: the operations of a bucket are serialized by its lock, and nothing
\* reads or changes the bucket's topic map while a publish runs its callbacks.
C10_Serialized == [](MutualExclusion) /\ [][PublishUndisturbed]_vars

\* A publish holds the lock with a callback still to invoke, while another
\* caller waits for the lock of the same bucket for a different topic.
C10_Witness ==
    \E t \in Threads, u \in Threads :
        /\ th[t].pc \in {"pub_iter", "pube_iter"}
        /\ Pending(getBucket(th[t].topic), th[t].topic, th[t].visited) # {}
        /\ th[u].pc \in {"sub_lock", "unsub_lock", "pub_lock", "cnt_lock"}
        /\ th[u].topic # th[t].topic
        /\ getBucket(th[u].topic) = getBucket(th[t].topic)

\* The entries of the log of caller t that are about subscriber s.
EntriesOf(t, s) == {i \in DOMAIN th[t].log : th[t].log[i].suber = s}

\* C11: a Publish that has returned, and around which no call subscribing or
\* unsubscribing s for its topic was in progress, from its beginning on, has
\* invoked for s exactly the callback of the Subscribe of s to the topic that
\* returned last, once, and has invoked nothing for s if an unsubscribe of s
\* from the topic returned after it or s never subscribed; whatever the other
\* callers did meanwhile for other subscribers or topics.
C11_HappensBefore ==
    \A t \in Threads :
        (Returned(t, "Publish") /\ th[t].seen # <<>>) =>
            \A s \in Subs :
                th[t].seen[s] = "quiet" =>
                    IF last[s][th[t].topic] # "none"
                    THEN /\ Cardinality(EntriesOf(t, s)) = 1
                         /\ \A i \in EntriesOf(t, s) :
                                th[t].log[i] = CallOf([suber |-> s, cb |-> last[s][th[t].topic]],
                                                      th[t].msg)
                    ELSE EntriesOf(t, s) = {}

\* A Publish has returned after invoking the callback of a subscriber whose
\* Subscribe had returned before it began, while another caller, after the
\* Publish began, took a second subscriber off the same topic.
C11_Witness ==
    \E t \in Threads, u \in Threads, s \in Subs :
        /\ u # t
        /\ Returned(t, "Publish")
        /\ th[t].seen # <<>>
        /\ th[t].seen[s] = "quiet"
        /\ EntriesOf(t, s) # {}
        /\ Returned(u, "UnSubscribe")
        /\ th[u].topic = th[t].topic
        /\ th[u].suber # s
        /\ th[t].seen[th[u].suber] = "later"

\* Caller t is inside a call.
InCall(t) == th[t].pc \notin {"idle", "done"}

\* Whenever a caller is inside a call, some caller inside a call can step.
NoDeadlock == (\E t \in Threads : InCall(t)) => ENABLED (\E t \in Threads : Proceed(t))

\* C12: with callbacks that return and do not call the emitter, no state is
\* reachable in which a caller is inside a call and none can step, and under
\* fair scheduling every call that was started returns.
C12_NeverStuck ==
    /\ []NoDeadlock
    /\ \A t \in Threads : InCall(t) ~> (th[t].pc = "done")

\* A caller waits for the mutex of a bucket that another caller holds while
\* it still has a callback to invoke.
C12_Witness ==
    \E t \in Threads, u \in Threads :
        /\ th[t].pc \in {"pub_iter", "pube_iter"}
        /\ Pending(getBucket(th[t].topic), th[t].topic, th[t].visited) # {}
        /\ th[u].pc \in {"sub_lock", "unsub_lock", "ua_lock", "pub_lock", "pube_lock",
                         "cnt_lock", "ts_lock"}
        /\ lock[IF th[u].pc = "ts_lock" THEN th[u].i
                ELSE IF th[u].pc = "ua_lock" THEN getBucket(Head(th[u].todo))
                ELSE getBucket(th[u].topic)] = t

IsPowerOfTwo(v) == \E k \in 0 .. IntBits : v = TwoTo(k)

\* C13: for every configured BucketNum the normalisation goes on until it is
\* done, and when it is done a value <= 0 has given 16 and a value n > 0 the
\* smallest power of two >= n, so that masking any hash with the count minus
\* one gives an index of a bucket.
C13_Normalizes ==
    /\ confPc # "done" => ENABLED <<ConfNext>>_vars
    /\ confPc = "done" =>
           /\ confN <= 0 => bucketNum = 16
           /\ confN > 0 =>
                  /\ IsPowerOfTwo(bucketNum)
                  /\ bucketNum >= confN
                  /\ \A v \in confN .. (bucketNum - 1) : ~IsPowerOfTwo(v)
           /\ \A h \in 0 .. MaxUint : BitAnd(h, bucketNum - 1) \in 0 .. (bucketNum - 1)

\* The subscribers whose latest returned call about the topic is a Subscribe.
Subscribed(topic) == {s \in Subs : last[s][topic] # "none"}

\* C14: after any sequence of completed calls, a TopicStatus that has returned
\* holds exactly one entry for every topic a Subscribe was ever made to and
\* none for any other topic, each with the number of subscribers now
\* subscribed to it, which is what CountSubscriberByTopic gives, 0 included.
C14_TopicStatus ==
    Returned(SeqCaller, "TopicStatus") =>
        LET res == Me.result
        IN /\ {res[i].Topic : i \in DOMAIN res} = ever
           /\ Len(res) = Cardinality(ever)
           /\ \A i \in DOMAIN res :
                  /\ res[i].Count = Cardinality(Subscribed(res[i].Topic))
                  /\ res[i].Count = countTopicSubscriber(getBucket(res[i].Topic), res[i].Topic)

\* A TopicStatus has returned that reports a topic all of whose subscribers
\* have unsubscribed, beside a topic that has subscribers, in two buckets.
C14_Witness ==
    /\ Returned(SeqCaller, "TopicStatus")
    /\ bucketNum = 2
    /\ \E i, j \in DOMAIN Me.result :
           /\ Me.result[i].Count = 0
           /\ Me.result[j].Count >= 1
           /\ getBucket(Me.result[i].Topic) # getBucket(Me.result[j].Topic)

\* The bucket whose mutex the caller with record r waits for, -1 if none.
WaitBucket(r) ==
    IF r.pc \in {"sub_lock", "unsub_lock", "pub_lock", "pube_lock", "cnt_lock"}
    THEN getBucket(r.topic)
    ELSE IF r.pc = "ua_lock" THEN getBucket(Head(r.todo))
    ELSE IF r.pc = "ts_lock" THEN r.i
    ELSE -1

\* The buckets of the publishes inside whose callbacks thread t is.
HeldInCallback(t) == {getBucket(stack[t][k].topic) : k \in DOMAIN stack[t]}

\* Thread t, inside a callback, has called an operation that waits for the
\* mutex of the bucket of the publish that runs the callback.
SelfBlocked(t) == WaitBucket(th[t]) \in HeldInCallback(t)

\* A call made from a callback is never inside the critical section of the
\* bucket of the publish that runs the callback, and while a thread is blocked
\* on itself nobody else is.
NeverReacquires ==
    \A t \in Threads :
        /\ CSBucket(th[t]) \notin HeldInCallback(t)
        /\ SelfBlocked(t) =>
               /\ lock[WaitBucket(th[t])] = t
               /\ \A u \in Threads \ {t} : CSBucket(th[u]) # WaitBucket(th[t])

\* Once a thread is blocked on itself it stays so: its call, the publishes it
\* is inside and the mutex do not change, and neither does any other caller
\* that waits for the same mutex.
StaysBlocked ==
    \A t \in Threads :
        SelfBlocked(t) =>
            /\ th'[t] = th[t]
            /\ stack'[t] = stack[t]
            /\ lock'[WaitBucket(th[t])] = t
            /\ \A u \in Threads \ {t} :
                   WaitBucket(th[u]) = WaitBucket(th[t]) => th'[u] = th[u]

Hung(t) == th[t].pc = "cb_hang"

\* While a callback of a publish of bucket A does not return, a caller that
\* waits for the mutex of a bucket can take it exactly when the bucket is not A.
OtherShardsFree ==
    \A t \in Threads, u \in Threads :
        (u # t /\ Hung(t) /\ stack[t] = <<>> /\ stack[u] = <<>>
         /\ WaitBucket(th[u]) # -1) =>
            ((ENABLED Proceed(u)) <=> (WaitBucket(th[u]) # getBucket(th[t].topic)))

\* The publish whose callback does not return keeps its mutex, and a caller
\* that waits for that mutex keeps waiting.
HungKeepsLock ==
    \A t \in Threads :
        Hung(t) =>
            /\ th'[t] = th[t]
            /\ lock'[getBucket(th[t].topic)] = t
            /\ \A u \in Threads \ {t} :
                   WaitBucket(th[u]) = getBucket(th[t].topic) => th'[u] = th[u]

\* C16: while a callback of a Publish on a topic of bucket A has not returned,
\* the operations on the topics of another bucket go on, and only those that
\* need A's mutex, TopicStatus among them, wait.
C16_ShardsIndependent == []OtherShardsFree /\ [][HungKeepsLock]_vars

\* A callback of a publish does not return, and the other caller is about to
\* take the mutex of another bucket, for a Subscribe to a topic that has no
\* registration yet.
C16_Witness ==
    \E t \in Threads, u \in Threads :
        /\ u # t
        /\ Hung(t)
        /\ th[u].pc = "sub_lock"
        /\ WaitBucket(th[u]) # getBucket(th[t].topic)
        /\ ~HasTopic(th[u].topic)

C18_RegistrationsPersist ==
    \A b \in Buckets :
        DOMAIN bTopics[b] = {topic \in ever : getBucket(topic) = b}

\* An UnSubscribe has returned that took the last subscriber off a topic,
\* whose registration is still there, empty.
C18_Witness ==
    \E t \in Threads :
        /\ Returned(t, "UnSubscribe")
        /\ asked[th[t].suber][th[t].topic] = "none"
        /\ HasTopic(th[t].topic)
        /\ DOMAIN SubersOf(th[t].topic) = {}
        /\ \E u \in Threads : Returned(u, "Publish") /\ th[u].topic = th[t].topic

\* C19: when a Publish, a PublishE, a CountSubscriberByTopic, a
\* GetTopicsBySubscriber or a TopicStatus has returned, with callbacks that do
\* not call the emitter, the topic maps of all buckets, with the registrations
\* and their callbacks, and the metadata stores of all subscribers are as they
\* were when it was called.
C19_ReadsChangeNothing ==
    (/\ Me.pc = "done"
     /\ Me.op \in {"Publish", "PublishE", "Count", "GetTopics", "TopicStatus"}) =>
        /\ bTopics = Me.pre.bTopics
        /\ md = Me.pre.md

\* A Publish has returned after invoking the callbacks of two subscribers.
C19_Witness ==
    /\ Returned(SeqCaller, "Publish")
    /\ Len(Me.log) = 2
    /\ Me.pre.bTopics # NewBuckets

====
